---- MODULE Spec2Model ----
(***************************************************************************)
(* Model of PJEMU64.cpp ("Neural Net Wars"): a feed-forward perceptron,    *)
(* the Unit that steers with it, and the Game session driven by main().    *)
(*                                                                         *)
(* Numbers.  The C++ code computes in float.  Here every float is held in  *)
(* fixed point with resolution 1/One (One = 2, i.e. halves):               *)
(*   - a position or a speed v (pixels) is the integer  One * v;           *)
(*   - a weight, a network input or output v is the integer  One * v;      *)
(*   - an angle a is held as  One * a / pi.                                *)
(* tanh, sqrtf, atan2f, cosf and sinf are computed on these values and     *)
(* rounded to the resolution; integer fields (SDL_Rect, SDL_Point) are     *)
(* plain integers, and static_cast<int> truncates.                         *)
(***************************************************************************)
EXTENDS Integers, Sequences, FiniteSets, TLC

(* ------------------------------ bounds --------------------------------- *)
\* loop iterations of main() that are explored
MaxFrames == 2
\* events delivered to one drain of handleEvents
MaxEvents == 2
\* number of seeds of the random sources beyond the first
MaxSeed == 1
\* topology length and layer width explored for NeuralNetwork on its own
MaxTopLen == 3
MaxWidth == 3
\* Unit::update calls explored on a unit on its own
MaxCalls == 2

(* ------------------------- program constants --------------------------- *)
WindowW == 800
WindowH == 600
BoxSize == 40
NumUnits == 5
InitTargetX == 400
InitTargetY == 300
InitSpeed == 2
MaxSpeed == 5
SpriteHalf == 20
MarkerHalf == 5
MarkerSize == 10
\* resolution of the fixed-point image of float
One == 2

UnitTopology == <<4, 6, 2>>

(* ------------------------------ arithmetic ----------------------------- *)
Abs(a) == IF a < 0 THEN -a ELSE a

Sgn(a) == IF a < 0 THEN -1 ELSE IF a = 0 THEN 0 ELSE 1

\* a / b rounded to the nearest integer (b > 0), ties away from zero
RoundDiv(a, b) == Sgn(a) * ((2 * Abs(a) + b) \div (2 * b))

\* static_cast<int>(float): truncation toward zero of a fixed-point value
ToInt(v) == Sgn(v) * (Abs(v) \div One)

\* the only element of a one-element set.  The({ e(v) : v \in { d } }) is
\* e(d) with d computed once.
The(S) == CHOOSE v \in S : TRUE

\* sqrtf, rounded down to the resolution (n < 64 * 64 * 64 * 64): first the
\* multiple of 64 below the root, then the root
Sqrtf(n) ==
    The({ CHOOSE r \in (64 * a)..(64 * a + 63) : r * r <= n /\ n < (r + 1) * (r + 1) :
          a \in { CHOOSE b \in 0..63 : (64 * b) * (64 * b) <= n
                                        /\ n < (64 * (b + 1)) * (64 * (b + 1)) } })

\* atan2f(dy, dx) / pi in units of 1/One: the nearest quarter turn
Atan2OverPi(dy, dx) ==
    IF dx = 0 /\ dy = 0 THEN 0
    ELSE IF dx > 0 THEN (IF Abs(dy) < dx THEN 0 ELSE Sgn(dy))
    ELSE IF Abs(dy) > Abs(dx) THEN Sgn(dy)
    ELSE IF dy >= 0 THEN 2 ELSE -2

\* cosf(d * pi / One) and sinf(d * pi / One) for d in -One..One
Cosf(d) == IF d = 0 THEN 1 ELSE IF Abs(d) = 1 THEN 0 ELSE -1

Sinf(d) == IF Abs(d) = 1 THEN d ELSE 0

\* tanh of a sum held in units of 1/(One*One), rounded to units of 1/One:
\* tanh(1/4) = 0.24 -> 0, tanh(1/2) = 0.46 and tanh(3/4) = 0.64 -> 1/2,
\* tanh(1) = 0.76 and above -> 1
Tanh(s) ==
    IF Abs(s) <= 1 THEN 0
    ELSE IF Abs(s) <= 3 THEN Sgn(s)
    ELSE 2 * Sgn(s)

(* ---------------------------- random sources ---------------------------- *)
\* one step of a linear congruential generator; stands for the library's
\* generators (rand, std::mt19937), whose algorithms the program does not fix
Lcg(s) == (s * 75 + 74) % 65537

\* the n-th value rand() returns after srand(seed)
RECURSIVE rand(_, _)
rand(seed, n) == IF n = 0 THEN seed ELSE Lcg(rand(seed, n - 1))

\* the k-th draw of uniform_real_distribution(-1, 1) from a generator
\* seeded with the entropy ent: a value of [-1, 1) at the resolution
dis(ent, k) == (Lcg(Lcg(ent + k)) % (2 * One)) - One

\* the values an out-of-range read of a weight may produce
WeightValues == (-One) .. (One - 1)

(* -------------------------------- Neuron -------------------------------- *)
Neuron(inputs, ent) ==
    [weights |-> [k \in 1..inputs |-> dis(ent, k)], bias |-> 0]

RECURSIVE SumTo(_, _, _, _)
SumTo(neuron, inputs, i, g) ==
    IF i = 0 THEN neuron.bias * One
    ELSE SumTo(neuron, inputs, i - 1, g)
         + inputs[i] * (IF i <= Len(neuron.weights) THEN neuron.weights[i] ELSE g)

\* activate reads weights[i] for every i below inputs.size(); a read past
\* the end of weights yields an arbitrary value g
activate(neuron, inputs, g) ==
    The({ Tanh(sum) : sum \in { SumTo(neuron, inputs, Len(inputs), g) } })

\* whether activate reads weights out of range
OutOfRange(neuron, inputs) == Len(inputs) > Len(neuron.weights)

(* ----------------------------- NeuralNetwork ---------------------------- *)
NeuralNetworkWrongWidth(topology, ent) ==
    [i \in 1..(Len(topology) - 1) |->
        [j \in 1..topology[i + 1] |->
            Neuron(topology[i + 1], Lcg(ent + 16 * i + j))]]

\* layer i (1-based) is built from topology[i] (numInputs) and topology[i+1]
NeuralNetwork(topology, ent) ==
    [i \in 1..(Len(topology) - 1) |->
        [j \in 1..topology[i + 1] |->
            Neuron(topology[i], Lcg(ent + 16 * i + j))]]

\* the inner loop of feedForward: outputs after the first j neurons of layer
RECURSIVE OutputsTo(_, _, _, _)
OutputsTo(layer, inputs, j, g) ==
    IF j = 0 THEN << >>
    ELSE Append(OutputsTo(layer, inputs, j - 1, g), activate(layer[j], inputs, g))

\* one iteration of feedForward's outer loop: the outputs of one layer
LayerOutputs(layer, inputs, g) == OutputsTo(layer, inputs, Len(layer), g)

\* the outer loop from layer i on: inputs = outputs, then the next layer
RECURSIVE FeedFrom(_, _, _, _)
FeedFrom(layers, i, inputs, g) ==
    IF i > Len(layers) THEN inputs
    ELSE The({ FeedFrom(layers, i + 1, outputs, g) :
               outputs \in { LayerOutputs(layers[i], inputs, g) } })

feedForward(layers, inputs, g) ==
    The({ FeedFrom(layers, 1, vec, g) : vec \in { inputs } })

(* --------------------------------- Unit --------------------------------- *)
Rect(x, y, w, h) == [x |-> x, y |-> y, w |-> w, h |-> h]

Point(x, y) == [x |-> x, y |-> y]

\* loaded: SDL_LoadBMP and SDL_CreateTextureFromSurface both gave a handle
Unit(startX, startY, loaded, ent) ==
    [x |-> startX * One, y |-> startY * One, speed |-> InitSpeed * One,
     rect |-> Rect(startX, startY, BoxSize, BoxSize),
     texture |-> loaded,
     brain |-> NeuralNetwork(UnitTopology, ent)]

\* lines 98-110: the network's inputs
NetInputs(u, tgt) ==
    LET dx == tgt.x * One - u.x
        dy == tgt.y * One - u.y
        angle == Atan2OverPi(dy, dx)
    IN  The({ << RoundDiv(distance, WindowW),
                 angle,
                 RoundDiv(u.speed, MaxSpeed),
                 0 >> : distance \in { Sqrtf(dx * dx + dy * dy) } })

\* the position and speed that outputs steer the unit to
Steer(u, outputs) ==
    LET speed == outputs[1] * MaxSpeed
        direction == outputs[2]
    IN  [x |-> u.x + Cosf(direction) * speed,
         y |-> u.y + Sinf(direction) * speed,
         speed |-> speed]

\* lines 98-119: the raw (unclamped) position and the new speed
Integrate(u, tgt, g) ==
    The({ Steer(u, outputs) :
          outputs \in { feedForward(u.brain, NetInputs(u, tgt), g) } })

ClampXNoUpper(x, w) == IF x < 0 THEN 0 ELSE x

\* lines 122-123
ClampX(x, w) ==
    IF x < 0 THEN 0
    ELSE IF x > (WindowW - w) * One THEN (WindowW - w) * One
    ELSE x

\* lines 124-125
ClampY(y, h) ==
    IF y < 0 THEN 0
    ELSE IF y > (WindowH - h) * One THEN (WindowH - h) * One
    ELSE y

\* lines 122-129 applied to the raw position r
Clamped(u, r) ==
    LET nx == ClampX(r.x, u.rect.w)
        ny == ClampY(r.y, u.rect.h)
    IN  [u EXCEPT !.x = nx, !.y = ny, !.speed = r.speed,
                  !.rect = Rect(ToInt(nx), ToInt(ny), u.rect.w, u.rect.h)]

Unit_update(u, tgt, g) == The({ Clamped(u, r) : r \in { Integrate(u, tgt, g) } })

Unit_renderNoFallback(u) ==
    [op |-> "RenderCopy", rect |-> u.rect, color |-> <<>>]

\* the drawing call Unit::render issues
Unit_render(u) ==
    IF u.texture
    THEN [op |-> "RenderCopy", rect |-> u.rect, color |-> <<>>]
    ELSE [op |-> "RenderFillRect", rect |-> u.rect, color |-> <<0, 255, 0, 255>>]

(* ------------------------------- state ---------------------------------- *)
VARIABLES
    pc,            \* position of main(), or of the driver of a component run
    window,        \* Game::window is a live handle
    renderer,      \* Game::renderer is a live handle
    running,       \* Game::running
    units,         \* Game::units
    target,        \* Game::target
    targetTexture, \* Game::targetTexture is a live handle
    acquired,      \* backend resources the program has obtained
    released,      \* backend resources in the order the program released them
    ret,           \* << >> while main() runs, then << exit code >>
    initOutcome,   \* how Game::init ended
    frame,         \* number of handleEvents calls started
    polled,        \* what the latest drain of the event queue delivered
    prevTarget,    \* Game::target when the latest drain began
    passed,        \* the target each Unit::update call of the latest update got
    raw,           \* the unclamped position computed by each of those calls
    frameBuf,      \* the drawing calls of the latest Game::render
    topology,      \* NeuralNetwork on its own: the constructor's argument
    layers,        \* NeuralNetwork::layers
    nnInputs,      \* feedForward's local vector inputs
    nnLayer,       \* index of the layer feedForward's loop is at
    nnFault        \* some activate call read weights out of range

vars == << pc, window, renderer, running, units, target, targetTexture,
           acquired, released, ret, initOutcome, frame, polled, prevTarget,
           passed, raw, frameBuf, topology, layers, nnInputs, nnLayer, nnFault >>

gameVars == << window, renderer, running, targetTexture, acquired, released,
               ret, initOutcome, polled, prevTarget, passed, frameBuf >>

nnVars == << topology, layers, nnInputs, nnLayer, nnFault >>

(* ------------------------ backend resources ----------------------------- *)
Res(kind, id) == [kind |-> kind, id |-> id]

Video == Res("video", 0)

Window == Res("window", 0)

Renderer == Res("renderer", 0)

TargetTexture == Res("targetTexture", 0)

UnitTexture(i) == Res("unitTexture", i)

(* ------------------------------- events --------------------------------- *)
QuitEvent == [type |-> "SDL_QUIT", x |-> 0, y |-> 0]

OtherEvent == [type |-> "SDL_KEYDOWN", x |-> 0, y |-> 0]

MouseDown(x, y) == [type |-> "SDL_MOUSEBUTTONDOWN", x |-> x, y |-> y]

\* pointer positions the environment presses at
ClickPoints == { <<100, 500>>, <<780, 20>> }

Events == { QuitEvent, OtherEvent } \cup { MouseDown(p[1], p[2]) : p \in ClickPoints }

\* the contents of the event queue one drain can find
Drains == UNION { [1..n -> Events] : n \in 0..MaxEvents }

\* std::time(nullptr) when the process starts: the first value explored.
\* With it the explored runs hold a start outside the clamp range (seed
\* FirstSeed) and starts all inside it (seed FirstSeed + 1).
FirstSeed == 1203

\* the explored values of the process's random seed; srand's generator and
\* the neurons' random_device are both derived from it
Seeds == FirstSeed..(FirstSeed + MaxSeed)

(* -------------------------------- Game ---------------------------------- *)
NoPoll == [quit |-> FALSE, press |-> <<>>]

\* Game::Game and the start of main
Init ==
    /\ pc = "main"
    /\ window = FALSE
    /\ renderer = FALSE
    /\ running = FALSE
    /\ units = <<>>
    /\ target = Point(InitTargetX, InitTargetY)
    /\ targetTexture = FALSE
    /\ acquired = {}
    /\ released = <<>>
    /\ ret = <<>>
    /\ initOutcome = "none"
    /\ frame = 0
    /\ polled = NoPoll
    /\ prevTarget = Point(InitTargetX, InitTargetY)
    /\ passed = <<>>
    /\ raw = <<>>
    /\ frameBuf = <<>>
    /\ topology = <<>>
    /\ layers = <<>>
    /\ nnInputs = <<>>
    /\ nnLayer = 0
    /\ nnFault = FALSE

\* the units Game::init creates: unit i starts at (rand() % 800, rand() % 600)
\* (the arguments are evaluated in some order; the model takes left to right)
InitialUnits(seed, unitLoaded) ==
    [i \in 1..NumUnits |->
        Unit(rand(seed, 2 * i - 1) % WindowW, rand(seed, 2 * i) % WindowH,
             unitLoaded[i], Lcg(seed + 100 * i))]

InitResultRendererUnchecked(failure) == failure \in { "none", "SDL_CreateRenderer" }

\* the value Game::init returns when the backend call named failure fails
\* ("none": SDL_Init, SDL_CreateWindow and SDL_CreateRenderer all succeed)
InitResult(failure) == failure = "none"

\* what Game::init has obtained from the backend when it returns
InitAcquires(failure, targetLoaded, unitLoaded) ==
    IF failure = "SDL_Init" THEN {}
    ELSE IF failure = "SDL_CreateWindow" THEN { Video }
    ELSE IF failure = "SDL_CreateRenderer" THEN { Video, Window }
    ELSE { Video, Window, Renderer }
         \cup (IF targetLoaded THEN { TargetTexture } ELSE {})
         \cup { UnitTexture(i) : i \in { k \in 1..NumUnits : unitLoaded[k] } }

\* what Game::init releases before it returns false
InitReleases(failure) ==
    IF failure = "SDL_CreateWindow" THEN << Video >>
    ELSE IF failure = "SDL_CreateRenderer" THEN << Window, Video >>
    ELSE << >>

\* main lines 266-271 with Game::init.  On a false return main returns -1
\* and the Game object is destroyed with no units in it.
Game_init(failure, targetLoaded, unitLoaded, seed) ==
    /\ pc = "main"
    /\ initOutcome' = failure
    /\ window' = (failure \notin { "SDL_Init", "SDL_CreateWindow" })
    /\ renderer' = (failure \notin { "SDL_Init", "SDL_CreateWindow", "SDL_CreateRenderer" })
    /\ acquired' = InitAcquires(failure, targetLoaded, unitLoaded)
    /\ released' = InitReleases(failure)
    /\ IF InitResult(failure)
       THEN /\ targetTexture' = targetLoaded
            /\ units' = InitialUnits(seed, unitLoaded)
            /\ running' = TRUE
            /\ ret' = << >>
            /\ pc' = "while"
       ELSE /\ ret' = << -1 >>
            /\ pc' = "exited"
            /\ UNCHANGED << running, units, targetTexture >>
    /\ UNCHANGED << target, frame, polled, prevTarget, passed, raw, frameBuf >>
    /\ UNCHANGED nnVars

\* main line 273: the loop condition
main_while ==
    /\ pc = "while"
    /\ pc' = IF running THEN "handleEvents" ELSE "clean"
    /\ UNCHANGED << units, target, frame, raw >>
    /\ UNCHANGED gameVars
    /\ UNCHANGED nnVars

\* the body of handleEvents' loop for one event, on the pair (running, target)
HandleOneIgnoringQuit(st, event) ==
    IF event.type = "SDL_MOUSEBUTTONDOWN"
    THEN [st EXCEPT !.target = Point(event.x, event.y)]
    ELSE st

HandleOneSmoothed(st, event) ==
    IF event.type = "SDL_QUIT"
    THEN [st EXCEPT !.running = FALSE]
    ELSE IF event.type = "SDL_MOUSEBUTTONDOWN"
    THEN [st EXCEPT !.target = Point((st.target.x + event.x) \div 2,
                                     (st.target.y + event.y) \div 2)]
    ELSE st

HandleOneKeyMovesTarget(st, event) ==
    IF event.type = "SDL_QUIT"
    THEN [st EXCEPT !.running = FALSE]
    ELSE [st EXCEPT !.target = Point(event.x, event.y)]

HandleOne(st, event) ==
    IF event.type = "SDL_QUIT"
    THEN [st EXCEPT !.running = FALSE]
    ELSE IF event.type = "SDL_MOUSEBUTTONDOWN"
    THEN [st EXCEPT !.target = Point(event.x, event.y)]
    ELSE st

RECURSIVE PollAll(_, _, _)
PollAll(st, evs, i) ==
    IF i > Len(evs) THEN st
    ELSE PollAll(HandleOne(st, evs[i]), evs, i + 1)

\* what a queue delivers, read off the queue itself
Presses(evs) == SelectSeq(evs, LAMBDA e : e.type = "SDL_MOUSEBUTTONDOWN")

Delivered(evs) ==
    [quit |-> \E i \in 1..Len(evs) : evs[i].type = "SDL_QUIT",
     press |-> IF Presses(evs) = <<>> THEN <<>>
               ELSE LET e == Presses(evs)[Len(Presses(evs))] IN << e.x, e.y >>]

\* Game::handleEvents: polls until the queue, evs, is empty
Game_handleEvents(evs) ==
    /\ pc = "handleEvents"
    /\ frame < MaxFrames
    /\ LET st == PollAll([running |-> running, target |-> target], evs, 1)
       IN  /\ running' = st.running
           /\ target' = st.target
    /\ polled' = Delivered(evs)
    /\ prevTarget' = target
    /\ frame' = frame + 1
    /\ pc' = "update"
    /\ UNCHANGED << window, renderer, units, targetTexture, acquired, released,
                    ret, initOutcome, passed, raw, frameBuf >>
    /\ UNCHANGED nnVars

\* whether some neuron of a network has fewer weights than it gets inputs
Misbuilt(brain, width) ==
    \E i \in 1..Len(brain) : \E j \in 1..Len(brain[i]) :
        Len(brain[i][j].weights) < (IF i = 1 THEN width ELSE Len(brain[i - 1]))

\* the values an out-of-range weight read may give in an update of us: any
\* weight value if some brain makes such a read, and immaterial otherwise
Garbage(us) ==
    IF \E i \in 1..Len(us) : Misbuilt(us[i].brain, UnitTopology[1]) THEN WeightValues ELSE { 0 }

\* the argument of unit->update(target)
TargetPassed == target

\* Game::update; g is what an out-of-range weight read would produce.  Each
\* unit->update(target) integrates (raw) and then clamps, as Unit_update does.
Game_update(g) ==
    /\ pc = "update"
    /\ raw' = [i \in 1..Len(units) |-> Integrate(units[i], TargetPassed, g)]
    /\ units' = [i \in 1..Len(units) |-> Clamped(units[i], raw'[i])]
    /\ passed' = [i \in 1..Len(units) |-> TargetPassed]
    /\ pc' = "render"
    /\ UNCHANGED << window, renderer, running, target, targetTexture, acquired,
                    released, ret, initOutcome, frame, polled, prevTarget, frameBuf >>
    /\ UNCHANGED nnVars

\* lines 236-243: the drawing call for the target
TargetDraw ==
    IF targetTexture
    THEN [op |-> "RenderCopy",
          rect |-> Rect(target.x - SpriteHalf, target.y - SpriteHalf,
                        2 * SpriteHalf, 2 * SpriteHalf),
          color |-> <<>>]
    ELSE [op |-> "RenderFillRect",
          rect |-> Rect(target.x - MarkerHalf, target.y - MarkerHalf,
                        MarkerSize, MarkerSize),
          color |-> <<255, 0, 0, 255>>]

\* Game::render: the drawing calls between RenderClear and RenderPresent
Game_render ==
    /\ pc = "render"
    /\ frameBuf' = << TargetDraw >> \o [i \in 1..Len(units) |-> Unit_render(units[i])]
    /\ pc' = "delay"
    /\ UNCHANGED << window, renderer, running, units, target, targetTexture,
                    acquired, released, ret, initOutcome, frame, polled,
                    prevTarget, passed, raw >>
    /\ UNCHANGED nnVars

\* main line 277: SDL_Delay(16), then back to the loop condition
main_delay ==
    /\ pc = "delay"
    /\ pc' = "while"
    /\ UNCHANGED << units, target, frame, raw >>
    /\ UNCHANGED gameVars
    /\ UNCHANGED nnVars

CleanReleasesUnguarded == << TargetTexture, Renderer, Window, Video >>

\* the backend calls of Game::clean, in order
CleanReleases ==
    (IF targetTexture THEN << TargetTexture >> ELSE << >>)
    \o << Renderer, Window, Video >>

\* Game::clean
Game_clean ==
    /\ pc = "clean"
    /\ released' = released \o CleanReleases
    /\ pc' = "return"
    /\ UNCHANGED << window, renderer, running, units, target, targetTexture,
                    acquired, ret, initOutcome, frame, polled, prevTarget,
                    passed, raw, frameBuf >>
    /\ UNCHANGED nnVars

\* the textures ~Unit destroys when the vector units is destroyed, taking
\* the elements in the order idx (a permutation of the indices)
RECURSIVE Destroyed(_, _)
Destroyed(us, idx) ==
    IF idx = <<>> THEN <<>>
    ELSE (IF us[Head(idx)].texture THEN << UnitTexture(Head(idx)) >> ELSE <<>>)
         \o Destroyed(us, Tail(idx))

Forward(n) == [i \in 1..n |-> i]

Backward(n) == [i \in 1..n |-> n + 1 - i]

\* main line 281: return 0 destroys game, hence units and every Unit in it.
\* The order in which a vector destroys its elements is the library's choice.
main_return(idx) ==
    /\ pc = "return"
    /\ released' = released \o Destroyed(units, idx)
    /\ ret' = << 0 >>
    /\ pc' = "exited"
    /\ UNCHANGED << window, renderer, running, units, target, targetTexture,
                    acquired, initOutcome, frame, polled, prevTarget,
                    passed, raw, frameBuf >>
    /\ UNCHANGED nnVars

InitFailures == { "SDL_Init", "SDL_CreateWindow", "SDL_CreateRenderer", "none" }

Next ==
    \/ \E failure \in InitFailures, targetLoaded \in BOOLEAN,
          unitLoaded \in [1..NumUnits -> BOOLEAN], seed \in Seeds :
          Game_init(failure, targetLoaded, unitLoaded, seed)
    \/ main_while
    \/ \E evs \in Drains :
          /\ frame + 1 < MaxFrames \/ Delivered(evs).quit
          /\ Game_handleEvents(evs)
    \/ \E g \in Garbage(units) : Game_update(g)
    \/ Game_render
    \/ main_delay
    \/ Game_clean
    \/ \E idx \in { Forward(Len(units)), Backward(Len(units)) } : main_return(idx)

Spec == Init /\ [][Next]_vars

\* main() is one thread that runs to the end: a step that can be taken is taken
FairSpec == Spec /\ WF_vars(Next)

(* ------------------- NeuralNetwork run on its own ----------------------- *)
\* the topologies explored: every one within the bounds, and the Unit's
Topologies ==
    UNION { [1..n -> 1..MaxWidth] : n \in 2..MaxTopLen } \cup { UnitTopology }

\* a caller holding a topology, about to construct the network from it
InitNN ==
    /\ pc = "nn_new"
    /\ topology \in Topologies
    /\ layers = <<>>
    /\ nnInputs = <<>>
    /\ nnLayer = 0
    /\ nnFault = FALSE
    /\ window = FALSE
    /\ renderer = FALSE
    /\ running = FALSE
    /\ units = <<>>
    /\ target = Point(InitTargetX, InitTargetY)
    /\ targetTexture = FALSE
    /\ acquired = {}
    /\ released = <<>>
    /\ ret = <<>>
    /\ initOutcome = "none"
    /\ frame = 0
    /\ polled = NoPoll
    /\ prevTarget = Point(InitTargetX, InitTargetY)
    /\ passed = <<>>
    /\ raw = <<>>
    /\ frameBuf = <<>>

\* NeuralNetwork::NeuralNetwork(topology)
NN_construct(ent) ==
    /\ pc = "nn_new"
    /\ layers' = NeuralNetwork(topology, ent)
    /\ pc' = "nn_built"
    /\ UNCHANGED << topology, nnInputs, nnLayer, nnFault, units, target, frame, raw >>
    /\ UNCHANGED gameVars

\* feedForward is called with an input of length topology[0], every entry v
NN_call(v) ==
    /\ pc \in { "nn_built", "nn_done" }
    /\ frame < MaxCalls
    /\ nnInputs' = [k \in 1..topology[1] |-> v]
    /\ nnLayer' = 1
    /\ frame' = frame + 1
    /\ pc' = "nn_feed"
    /\ UNCHANGED << topology, layers, nnFault, units, target, raw >>
    /\ UNCHANGED gameVars

\* one iteration of feedForward's loop over layers
NN_layer(g) ==
    /\ pc = "nn_feed"
    /\ nnLayer <= Len(layers)
    /\ nnFault' = (nnFault \/ \E j \in 1..Len(layers[nnLayer]) :
                                 OutOfRange(layers[nnLayer][j], nnInputs))
    /\ nnInputs' = LayerOutputs(layers[nnLayer], nnInputs, g)
    /\ nnLayer' = nnLayer + 1
    /\ UNCHANGED << pc, topology, layers, units, target, frame, raw >>
    /\ UNCHANGED gameVars

\* feedForward returns inputs
NN_return ==
    /\ pc = "nn_feed"
    /\ nnLayer > Len(layers)
    /\ pc' = "nn_done"
    /\ UNCHANGED << units, target, frame, raw >>
    /\ UNCHANGED nnVars
    /\ UNCHANGED gameVars

\* the values given to every entry of an input vector
InputValues == { -One, 1 }

NextNN ==
    \/ \E seed \in Seeds : NN_construct(Lcg(seed))
    \/ \E v \in InputValues : NN_call(v)
    \/ \E g \in WeightValues : NN_layer(g)
    \/ NN_return

SpecNN == InitNN /\ [][NextNN]_vars

(* ------------------------- Unit run on its own -------------------------- *)
\* positions (fixed point) a unit is at before an update: at, next to and
\* beyond the bounds of the clamp, and in the middle
PreXs == { 0, 3, WindowW, (WindowW - BoxSize) * One, (WindowW - 1) * One }

PreYs == { 0, 3, WindowH, (WindowH - BoxSize) * One, (WindowH - 1) * One }

PreSpeeds == { -MaxSpeed * One, InitSpeed * One, MaxSpeed * One }

TargetPoints ==
    { Point(InitTargetX, InitTargetY) } \cup { Point(p[1], p[2]) : p \in ClickPoints }

\* a unit with a random brain at one of the positions, about to be updated
InitUnit ==
    /\ pc = "unit"
    /\ \E seed \in Seeds, px \in PreXs, py \in PreYs, sp \in PreSpeeds :
          units = << [Unit(0, 0, FALSE, Lcg(seed + 100))
                        EXCEPT !.x = px, !.y = py, !.speed = sp] >>
    /\ target = Point(InitTargetX, InitTargetY)
    /\ topology = <<>>
    /\ layers = <<>>
    /\ nnInputs = <<>>
    /\ nnLayer = 0
    /\ nnFault = FALSE
    /\ window = FALSE
    /\ renderer = FALSE
    /\ running = FALSE
    /\ targetTexture = FALSE
    /\ acquired = {}
    /\ released = <<>>
    /\ ret = <<>>
    /\ initOutcome = "none"
    /\ frame = 0
    /\ polled = NoPoll
    /\ prevTarget = Point(InitTargetX, InitTargetY)
    /\ passed = <<>>
    /\ raw = <<>>
    /\ frameBuf = <<>>

\* Unit::update(tgt)
Unit_call(tgt, g) ==
    /\ pc = "unit"
    /\ frame < MaxCalls
    /\ units' = << Unit_update(units[1], tgt, g) >>
    /\ raw' = << Integrate(units[1], tgt, g) >>
    /\ target' = tgt
    /\ frame' = frame + 1
    /\ UNCHANGED pc
    /\ UNCHANGED << window, renderer, running, targetTexture, acquired, released,
                    ret, initOutcome, polled, prevTarget, passed, frameBuf >>
    /\ UNCHANGED nnVars

NextUnit == \E tgt \in TargetPoints, g \in Garbage(units) : Unit_call(tgt, g)

SpecUnit == InitUnit /\ [][NextUnit]_vars

(* ------------------------------- claims --------------------------------- *)
Occurrences(seq, r) == Cardinality({ k \in 1..Len(seq) : seq[k] = r })

Exited == pc = "exited"

ExitedWith(code) == pc = "exited" /\ ret = << code >>

\* the place of a kind of resource in the teardown order of the Session
TeardownRank(r) ==
    IF r.kind = "unitTexture" THEN 1
    ELSE IF r.kind = "targetTexture" THEN 2
    ELSE IF r.kind = "renderer" THEN 3
    ELSE IF r.kind = "window" THEN 4
    ELSE 5

\* C1: on a normal shutdown the backend resources are released in the order
\* agent textures, target texture, renderer, window, backend; no agent
\* texture is released after the renderer or after SDL_Quit.
C1_TeardownOrder ==
    ExitedWith(0) =>
        \A a \in 1..Len(released), b \in 1..Len(released) :
            a < b => TeardownRank(released[a]) <= TeardownRank(released[b])

\* C2: after Unit::update the position is inside [0, 760] x [0, 560]; a raw
\* coordinate outside its range is set to the nearest bound, and one inside
\* its range is kept.
C2_ClampExact ==
    frame >= 1 =>
        LET u == units[1]
            r == raw[1]
            maxX == 760 * One
            maxY == 560 * One
        IN  /\ 0 <= u.x /\ u.x <= maxX
            /\ 0 <= u.y /\ u.y <= maxY
            /\ (r.x < 0 => u.x = 0)
            /\ (r.x > maxX => u.x = maxX)
            /\ (0 <= r.x /\ r.x <= maxX => u.x = r.x)
            /\ (r.y < 0 => u.y = 0)
            /\ (r.y > maxY => u.y = maxY)
            /\ (0 <= r.y /\ r.y <= maxY => u.y = r.y)

\* an update whose raw x fell below 0 and whose raw y fell above 560
C2_Witness ==
    /\ pc = "unit"
    /\ frame >= 1
    /\ raw[1].x < 0
    /\ raw[1].y > 560 * One
    /\ units[1].x = 0
    /\ units[1].y = 560 * One

\* C3: after a drain that handled pointer presses the Target is the point of
\* the last press; after a drain without one it is the Target of the frame
\* before; and that Target is what every agent's update of the frame gets.
C3_LastPressWins ==
    pc \in { "update", "render", "delay" } =>
        /\ polled.press # <<>> => target = Point(polled.press[1], polled.press[2])
        /\ polled.press = <<>> => target = prevTarget
        /\ pc \in { "render", "delay" } =>
              /\ Len(passed) = NumUnits
              /\ \A i \in 1..NumUnits : passed[i] = target

\* the second frame's drain pressed elsewhere than the first frame's Target,
\* and the agents have been updated with it
C3_Witness ==
    /\ pc = "render"
    /\ frame = 2
    /\ polled.press # <<>>
    /\ prevTarget # Point(InitTargetX, InitTargetY)
    /\ target # prevTarget
    /\ Len(passed) = NumUnits

\* C4: once a close event has been drained no further drain is started, the
\* program reaches its exit with code 0, and teardown destroys no texture
\* that was never created, whatever sprites loaded.
C4_CloseExits ==
    /\ [][polled.quit => frame' = frame]_vars
    /\ (polled.quit ~> ExitedWith(0))
    /\ [](ExitedWith(0) => \A k \in 1..Len(released) : released[k] \in acquired)

\* a session in which no sprite loaded, closed and exited
C4_Witness ==
    /\ ExitedWith(0)
    /\ polled.quit
    /\ acquired = { Video, Window, Renderer }
    /\ Len(units) = NumUnits

\* C5: a failure of SDL_Init, SDL_CreateWindow or SDL_CreateRenderer ends
\* the process with code -1, with nothing obtained after the failing call,
\* running false, no unit and no frame; code 0 comes only from a session
\* that ran and was closed.
C5_StartupFailure ==
    /\ initOutcome \in { "SDL_Init", "SDL_CreateWindow", "SDL_CreateRenderer" } =>
          /\ ExitedWith(-1)
          /\ ~running
          /\ units = <<>>
          /\ frame = 0
          /\ frameBuf = <<>>
          /\ passed = <<>>
          /\ acquired \subseteq { Video, Window }
          /\ initOutcome = "SDL_Init" => acquired = {}
          /\ initOutcome = "SDL_CreateWindow" => acquired = { Video }
    /\ Exited => ret \in { << 0 >>, << -1 >> }
    /\ ExitedWith(0) =>
          /\ initOutcome = "none"
          /\ Len(units) = NumUnits
          /\ frame >= 1
          /\ polled.quit
          /\ ~running

\* renderer creation failed and the process has exited
C5_Witness ==
    /\ initOutcome = "SDL_CreateRenderer"
    /\ ExitedWith(-1)
    /\ acquired = { Video, Window }

\* what the latest frame drew for the target and for agent i
DrawnTarget == frameBuf[1]

DrawnUnit(i) == frameBuf[i + 1]

\* C6: a sprite load failure is not fatal: init still yields 5 agents and a
\* running session; whether an entity has a texture never changes after
\* construction; in every frame an entity without one is drawn as its
\* fallback (green 40x40 box of the agent, 10x10 marker centred on the
\* target) and an entity with one is drawn by its sprite.
C6_FallbackForSession ==
    /\ [](initOutcome = "none" /\ pc # "main" =>
             /\ Len(units) = NumUnits
             /\ frame = 0 => running
             /\ targetTexture = (TargetTexture \in acquired)
             /\ \A i \in 1..NumUnits : units[i].texture = (UnitTexture(i) \in acquired))
    /\ [][pc # "main" => acquired' = acquired]_vars
    /\ [](pc = "delay" =>
             /\ Len(frameBuf) = NumUnits + 1
             /\ IF TargetTexture \in acquired
                THEN DrawnTarget.op = "RenderCopy"
                ELSE /\ DrawnTarget.op = "RenderFillRect"
                     /\ DrawnTarget.rect = Rect(target.x - 5, target.y - 5, 10, 10)
             /\ \A i \in 1..NumUnits :
                   /\ DrawnUnit(i).rect = Rect(ToInt(units[i].x), ToInt(units[i].y), 40, 40)
                   /\ IF UnitTexture(i) \in acquired
                      THEN DrawnUnit(i).op = "RenderCopy"
                      ELSE /\ DrawnUnit(i).op = "RenderFillRect"
                           /\ DrawnUnit(i).color = << 0, 255, 0, 255 >>)

\* a second frame drawn with the target and agent 1 as fallbacks and agent 2
\* as a sprite
C6_Witness ==
    /\ pc = "delay"
    /\ frame = 2
    /\ TargetTexture \notin acquired
    /\ UnitTexture(1) \notin acquired
    /\ UnitTexture(2) \in acquired
    /\ DrawnTarget.op = "RenderFillRect"
    /\ DrawnUnit(1).op = "RenderFillRect"
    /\ DrawnUnit(2).op = "RenderCopy"

\* the structure the constructor gives a network
WellFormed ==
    /\ Len(layers) = Len(topology) - 1
    /\ \A i \in 1..Len(layers) :
          /\ Len(layers[i]) = topology[i + 1]
          /\ \A j \in 1..Len(layers[i]) : Len(layers[i][j].weights) = topology[i]

\* C7: a network built from T has len(T)-1 layers, layer i has T[i+1]
\* neurons with T[i] weights each; in feedForward every activate call gets as
\* many inputs as the neuron has weights, and the result has T[last] entries.
C7_Dimensions ==
    /\ pc \in { "nn_built", "nn_feed", "nn_done" } => WellFormed
    /\ ~nnFault
    /\ pc = "nn_feed" /\ nnLayer <= Len(layers) =>
          \A j \in 1..Len(layers[nnLayer]) :
              Len(nnInputs) = Len(layers[nnLayer][j].weights)
    /\ pc = "nn_done" => Len(nnInputs) = topology[Len(topology)]

\* a forward pass through two layers of different widths has returned
C7_Witness ==
    /\ pc = "nn_done"
    /\ Len(topology) = 3
    /\ topology[1] # topology[2]
    /\ topology[2] # topology[3]
    /\ Len(nnInputs) = topology[3]

\* C8: the Target changes only in handleEvents and only to the point of a
\* pointer press of that drain; until the first press it is (400, 300).
C8_TargetOnlyByPress ==
    /\ [][target' # target =>
             /\ pc = "handleEvents"
             /\ polled'.press = << target'.x, target'.y >>]_vars
    /\ [](frame = 0 => target = Point(400, 300))

\* a second frame without a press ends with the Target the first frame set
C8_Witness ==
    /\ pc = "delay"
    /\ frame = 2
    /\ polled.press = <<>>
    /\ target # Point(InitTargetX, InitTargetY)
    /\ target = prevTarget

\* C9: while the session runs there are 5 agents and each one's 40x40 box
\* lies within the 800x600 playfield, from initialization on.
C9_BoxInPlayfield ==
    running =>
        /\ Len(units) = NumUnits
        /\ \A i \in 1..Len(units) :
              /\ 0 <= units[i].x /\ units[i].x <= 760 * One
              /\ 0 <= units[i].y /\ units[i].y <= 560 * One
              /\ 0 <= units[i].rect.x /\ units[i].rect.x + units[i].rect.w <= 800
              /\ 0 <= units[i].rect.y /\ units[i].rect.y + units[i].rect.h <= 600

\* C10: at process exit every resource obtained from the backend has been
\* released by exactly one call, and nothing else has been released.
C10_ReleasedOnce ==
    Exited =>
        /\ \A r \in acquired : Occurrences(released, r) = 1
        /\ \A k \in 1..Len(released) : released[k] \in acquired

\* a closed session in which some but not all agent sprites loaded and the
\* target sprite did not
C10_Witness ==
    /\ ExitedWith(0)
    /\ TargetTexture \notin acquired
    /\ UnitTexture(1) \in acquired
    /\ UnitTexture(2) \notin acquired
    /\ Len(released) = Cardinality(acquired)

====
